---- MODULE Spec2Model ----
(***************************************************************************)
(* Token lifecycle of the conjurapi Client (conjurapi/authn.go): the       *)
(* Session part of the Client (authToken, authenticator, storage), the     *)
(* operations RefreshToken, ForceRefreshToken, createAuthRequest,          *)
(* NeedsTokenRefresh, InternalAuthenticate, Login, OidcAuthenticate and    *)
(* PurgeCredentials.                                                       *)
(*                                                                         *)
(* Three specifications:                                                   *)
(*   Spec      one caller at a time; every handler is one action.          *)
(*   SpecConc  Callers goroutines share one Client and interleave at the   *)
(*             reads and writes of c.authToken and at the network call.    *)
(*   SpecValidate  Config.validate applied to Config values.               *)
(*                                                                         *)
(* The clock counts thirds of the token lifetime.                          *)
(***************************************************************************)
EXTENDS Integers, Sequences, FiniteSets, TLC

VARIABLES
    authToken,    \* c.authToken: NoToken (nil) or an AuthnToken
    authKind,     \* dynamic type of c.authenticator; "none" is a nil interface
    authnType,    \* c.GetConfig().AuthnType
    hasStorage,   \* c.storage != nil
    loginPair,    \* APIKeyAuthenticator.LoginPair
    fixedToken,   \* TokenAuthenticator's pre-issued payload
    storeToken,   \* CredentialStore: cached access token bytes
    storeCreds,   \* CredentialStore: stored login / API key
    now,          \* wall clock
    reqHeader,    \* Authorization header of the request being built; the
                  \* request is dropped when another handler is called
    reqRest,      \* the rest of that request (method, URL, body, the other
                  \* headers); NoRequest when no request is being built
    last,         \* what the most recent call did and returned (Spec)
    crashed,      \* a nil-interface call panicked
    pc,           \* SpecConc: position of each caller
    loc,          \* SpecConc: locals of each caller, and what it observed
    netCalls,     \* SpecConc: authenticator.RefreshToken calls of this burst
    installs,     \* SpecConc: assignments refreshToken made in this burst
    conf,         \* SpecValidate: the Config value validate is called on
    validateErr   \* SpecValidate: what Config.validate returned

vars == <<authToken, authKind, authnType, hasStorage, loginPair, fixedToken,
          storeToken, storeCreds, now, reqHeader, reqRest, last,
          crashed, pc, loc, netCalls, installs, conf, validateErr>>

config == <<authKind, authnType, hasStorage, loginPair, fixedToken>>
concVars == <<pc, loc, netCalls, installs>>
validation == <<conf, validateErr>>

-----------------------------------------------------------------------------
(* Bounds *)

MaxTime == 3        \* the clock runs 0..MaxTime
MaxSig == 2         \* distinct payloads the server can issue at one instant
Callers == 2        \* SpecConc: concurrent callers
MaxLen == 1         \* SpecValidate: longest string a Config field holds

(* Freshness policy: a token lives three clock units and is refreshed      *)
(* during the last one.                                                    *)
TokenLifetime == 3
RefreshMargin == 1

-----------------------------------------------------------------------------
(* Byte payloads and errors *)

NoBytes == [fmt |-> "nil", iat |-> 0, sig |-> 0]
Junk == [fmt |-> "junk", iat |-> 0, sig |-> 0]       \* not a serialized record
NoIat == [fmt |-> "noiat", iat |-> 0, sig |-> 0]     \* a record without "iat"
Issued(t, s) == [fmt |-> "json", iat |-> t, sig |-> s]

Malformed == {Junk, NoIat}
ServerTokens(t) == {Issued(t, s) : s \in 1..MaxSig}

NoErr == "nil"
NoToken == [raw |-> NoBytes, iat |-> -1]
NoHeader == [scheme |-> "", b64 |-> NoBytes]
\* no request is being built; the requests the caller builds
NoRequest == ""
Requests == {"GET", "POST"}
NoCreds == [login |-> "", apiKey |-> ""]

ValidPair == [login |-> "valid-login", apiKey |-> "valid-api-key"]
InvalidPair == [login |-> "invalid-login", apiKey |-> "valid-api-key"]

Ok(b) == [bytes |-> b, err |-> NoErr]
Fail(e) == [bytes |-> NoBytes, err |-> e]

-----------------------------------------------------------------------------
(* authn.AuthnToken *)

Parseable(bytes) == bytes.fmt = "json"

\* authn.NewToken followed by FromJSON: the token keeps the bytes it was
\* built from and derives the issuance time from them.
NewToken(bytes) ==
    IF Parseable(bytes)
    THEN [tok |-> [raw |-> bytes, iat |-> bytes.iat], err |-> NoErr]
    ELSE [tok |-> NoToken, err |-> "malformed token"]

Raw(tok) == tok.raw

ShouldRefresh(tok, t) == t >= tok.iat + (TokenLifetime - RefreshMargin)

-----------------------------------------------------------------------------
(* CredentialStore: moves bytes across a persistence boundary; every        *)
(* operation may fail, and a write is all or nothing.                       *)

StoreErr == "store unavailable"

\* ReadAuthnToken(): the stored bytes (none on a first run), or a failure.
ReadAuthnToken(stored) == {Ok(stored), Fail(StoreErr)}

\* StoreAuthnToken(bytes): the store after the call, with the error returned.
StoreAuthnToken(stored, bytes) ==
    {[stored |-> bytes, err |-> NoErr], [stored |-> stored, err |-> StoreErr]}

\* StoreCredentials(login, apiKey)
StoreCredentials(creds, login, apiKey) ==
    {[creds |-> [login |-> login, apiKey |-> apiKey], err |-> NoErr],
     [creds |-> creds, err |-> StoreErr]}

\* PurgeCredentials(): drops the credentials and the cached token.
StorePurgeCredentials(creds, stored) ==
    {[creds |-> NoCreds, stored |-> NoBytes, err |-> NoErr],
     [creds |-> creds, stored |-> stored, err |-> StoreErr]}

-----------------------------------------------------------------------------
(* Authenticators. A run of RefreshToken is a record: the bytes and error   *)
(* it returns, the delegate calls it made, each with its argument and what  *)
(* it returned (deleg), and the CredentialStore reads it made (reads).      *)

\* Client.Authenticate, the delegate NewClientFromKey injects: one request to
\* the authenticate endpoint. The server issues a token stamped with the
\* current time for valid credentials and answers 401 otherwise.
Authenticate(pair, t) ==
    IF pair = ValidPair
    THEN {Ok(b) : b \in ServerTokens(t) \cup {Junk}} \cup {Fail("transport")}
    ELSE {Fail("401 Invalid"), Fail("transport")}

DelegateCall(pair, d) == [arg |-> pair, bytes |-> d.bytes, err |-> d.err]

\* RefreshToken that asks the delegate again after a failure
APIKeyRefreshTokenRetries(pair, t) ==
    {[bytes |-> d.bytes, err |-> d.err, deleg |-> <<DelegateCall(pair, d)>>,
      reads |-> 0] : d \in {x \in Authenticate(pair, t) : x.err = NoErr}}
    \cup
    {[bytes |-> e.bytes, err |-> e.err,
      deleg |-> <<DelegateCall(pair, d), DelegateCall(pair, e)>>, reads |-> 0] :
        d \in {x \in Authenticate(pair, t) : x.err # NoErr},
        e \in Authenticate(pair, t)}

APIKeyRefreshToken(pair, t) ==
    {[bytes |-> d.bytes, err |-> d.err, deleg |-> <<DelegateCall(pair, d)>>,
      reads |-> 0] : d \in Authenticate(pair, t)}

APIKeyNeedsTokenRefresh == FALSE

TokenRefreshToken(fixed) ==
    IF fixed = NoBytes
    THEN {[bytes |-> NoBytes, err |-> "not authenticated", deleg |-> <<>>, reads |-> 0]}
    ELSE {[bytes |-> fixed, err |-> NoErr, deleg |-> <<>>, reads |-> 0]}

TokenNeedsTokenRefresh == FALSE

ReloginErr == "No valid OIDC token found. Please login again."

OidcRefreshToken(stored, t) ==
    {LET p == NewToken(rd.bytes)
     IN  IF rd.err = NoErr /\ p.err = NoErr /\ ~ShouldRefresh(p.tok, t)
         THEN [bytes |-> Raw(p.tok), err |-> NoErr, deleg |-> <<>>, reads |-> 1]
         ELSE [bytes |-> NoBytes, err |-> ReloginErr, deleg |-> <<>>, reads |-> 1] :
        rd \in ReadAuthnToken(stored)}

OidcNeedsTokenRefresh == FALSE

\* c.authenticator.RefreshToken() on a non-nil authenticator of the given kind
AuthenticatorRefreshToken(kind, pair, fixed, stored, t) ==
    CASE kind = "apikey" -> APIKeyRefreshToken(pair, t)
      [] kind = "token"  -> TokenRefreshToken(fixed)
      [] kind = "oidc"   -> OidcRefreshToken(stored, t)

AuthenticatorNeedsTokenRefresh(kind) ==
    CASE kind = "apikey" -> APIKeyNeedsTokenRefresh
      [] kind = "token"  -> TokenNeedsTokenRefresh
      [] kind = "oidc"   -> OidcNeedsTokenRefresh

-----------------------------------------------------------------------------
(* Client: the pure parts of authn.go *)

\* Client.readCachedAccessToken, given what c.storage.ReadAuthnToken returned
readCachedAccessToken(rd) ==
    IF rd.err # NoErr
    THEN NoToken
    ELSE LET p == NewToken(rd.bytes)
         IN  IF p.err # NoErr THEN NoToken ELSE p.tok

\* Client.NeedsTokenRefresh; || evaluates left to right and stops early, so
\* the authenticator is asked only for a token that is present and fresh.
AsksAuthenticator(tok, t) == tok # NoToken /\ ~ShouldRefresh(tok, t)

\* NeedsTokenRefresh that looks only at whether a token is present
NeedsTokenRefreshNilOnly(tok, kind, t) ==
    \/ tok = NoToken
    \/ AuthenticatorNeedsTokenRefresh(kind)

\* NeedsTokenRefresh that looks only at the age of the token
NeedsTokenRefreshAgeOnly(tok, kind, t) ==
    \/ ShouldRefresh(tok, t)
    \/ AuthenticatorNeedsTokenRefresh(kind)

NeedsTokenRefresh(tok, kind, t) ==
    \/ tok = NoToken
    \/ ShouldRefresh(tok, t)
    \/ AuthenticatorNeedsTokenRefresh(kind)

\* refreshToken with the assignment moved before the error checks
refreshTokenAssignsFirst(tok, r) ==
    LET p == NewToken(r.bytes)
    IN  [tok |-> p.tok,
         err |-> IF r.err # NoErr THEN r.err ELSE p.err]

\* Client.refreshToken after c.authenticator.RefreshToken() returned r:
\* the token the Session holds afterwards, and the error returned.
refreshToken(tok, r) ==
    IF r.err # NoErr
    THEN [tok |-> tok, err |-> r.err]
    ELSE LET p == NewToken(r.bytes)
         IN  IF p.err # NoErr
             THEN [tok |-> tok, err |-> p.err]
             ELSE [tok |-> p.tok, err |-> NoErr]

\* The Authorization header createAuthRequest sets
Base64(bytes) == [fmt |-> "b64", iat |-> bytes.iat, sig |-> bytes.sig]
AuthHeader(tok) == [scheme |-> "Token token=", b64 |-> Base64(Raw(tok))]

-----------------------------------------------------------------------------
(* Runs of the token-demanding handlers. A run records the Session token   *)
(* afterwards (tok), the error returned (err), whether a nil interface was  *)
(* called (panic), the c.authenticator.RefreshToken() calls made (calls)    *)
(* with what the one call returned (got, gotErr, deleg, areads), and the    *)
(* c.storage.ReadAuthnToken() calls the Client made itself (reads) with the *)
(* error the store returned (rdErr).                                        *)

Unread == Ok(NoBytes)
NoAuthRun == [bytes |-> NoBytes, err |-> NoErr, deleg |-> <<>>, reads |-> 0]

Run(tok, err, panic, calls, r, reads, cached) ==
    [tok |-> tok, err |-> err, panic |-> panic, calls |-> calls,
     got |-> r.bytes, gotErr |-> r.err, deleg |-> r.deleg, areads |-> r.reads,
     reads |-> reads, rdErr |-> cached.err]

\* refreshToken that asks the authenticator a second time when the first
\* call failed
refreshTokenRunsRetries(tok, reads, cached) ==
    IF authKind = "none"
    THEN {Run(tok, "panic", TRUE, 0, NoAuthRun, reads, cached)}
    ELSE UNION
           {IF r.err = NoErr
            THEN {LET res == refreshToken(tok, r)
                  IN  Run(res.tok, res.err, FALSE, 1, r, reads, cached)}
            ELSE {LET res == refreshToken(tok, r2)
                  IN  Run(res.tok, res.err, FALSE, 2, r2, reads, cached) :
                     r2 \in AuthenticatorRefreshToken(authKind, loginPair,
                                                fixedToken, storeToken, now)} :
             r \in AuthenticatorRefreshToken(authKind, loginPair, fixedToken,
                                             storeToken, now)}

\* Client.refreshToken as called from a handler that has read the store
\* `reads` times and holds token tok.
refreshTokenRuns(tok, reads, cached) ==
    IF authKind = "none"
    THEN {Run(tok, "panic", TRUE, 0, NoAuthRun, reads, cached)}
    ELSE {LET res == refreshToken(tok, r)
          IN  Run(res.tok, res.err, FALSE, 1, r, reads, cached) :
             r \in AuthenticatorRefreshToken(authKind, loginPair, fixedToken,
                                             storeToken, now)}

\* Client.RefreshToken, lines 35-39, with the (possibly hydrated) token tok
checkAndRefreshRuns(tok, reads, cached) ==
    IF AsksAuthenticator(tok, now) /\ authKind = "none"
    THEN {Run(tok, "panic", TRUE, 0, NoAuthRun, reads, cached)}
    ELSE IF NeedsTokenRefresh(tok, authKind, now)
         THEN refreshTokenRuns(tok, reads, cached)
         ELSE {Run(tok, NoErr, FALSE, 0, NoAuthRun, reads, cached)}

\* ForceRefreshToken that refreshes only a Stale Session
ForceRefreshTokenChecksFirst == checkAndRefreshRuns(authToken, 0, Unread)

\* Client.ForceRefreshToken
ForceRefreshTokenRuns == refreshTokenRuns(authToken, 0, Unread)

\* hydration that assigns whatever readCachedAccessToken returned, nil too
HydrateAssignsAlways(tok, rd) == readCachedAccessToken(rd)

\* hydration that never adopts the cached token
HydrateKeeps(tok, rd) == tok

\* Client.RefreshToken, lines 28-33: the token after hydration
Hydrate(tok, rd) ==
    LET token == readCachedAccessToken(rd)
    IN  IF token # NoToken THEN token ELSE tok

\* Client.RefreshToken
RefreshTokenRuns ==
    IF authnType = "oidc"
    THEN IF ~hasStorage
         THEN {Run(authToken, "panic", TRUE, 0, NoAuthRun, 0, Unread)}
         ELSE UNION {checkAndRefreshRuns(Hydrate(authToken, rd), 1, rd) :
                        rd \in ReadAuthnToken(storeToken)}
    ELSE checkAndRefreshRuns(authToken, 0, Unread)

-----------------------------------------------------------------------------
(* The record of the most recent call *)

Blank(op) ==
    [op |-> op, err |-> NoErr, out |-> NoBytes, pre |-> authToken,
     calls |-> 0, got |-> NoBytes, gotErr |-> NoErr, deleg |-> <<>>,
     areads |-> 0, reads |-> 0, rdErr |-> NoErr,
     writes |-> <<>>, werr |-> NoErr, exch |-> "", ans |-> FALSE,
     again |-> FALSE]

OfRun(op, run) ==
    [Blank(op) EXCEPT !.err = run.err, !.calls = run.calls, !.got = run.got,
                      !.gotErr = run.gotErr, !.deleg = run.deleg,
                      !.areads = run.areads, !.reads = run.reads,
                      !.rdErr = run.rdErr]

-----------------------------------------------------------------------------
(* Spec: the handlers, one call at a time *)

RefreshToken ==
    /\ ~crashed
    /\ \E run \in RefreshTokenRuns :
          /\ authToken' = run.tok
          /\ crashed' = run.panic
          /\ last' = OfRun("RefreshToken", run)
    /\ reqHeader' = NoHeader
    /\ reqRest' = NoRequest
    /\ UNCHANGED <<validation, config, storeToken, storeCreds, now, concVars>>

ForceRefreshToken ==
    /\ ~crashed
    /\ \E run \in ForceRefreshTokenRuns :
          /\ authToken' = run.tok
          /\ crashed' = run.panic
          /\ last' = OfRun("ForceRefreshToken", run)
    /\ reqHeader' = NoHeader
    /\ reqRest' = NoRequest
    /\ UNCHANGED <<validation, config, storeToken, storeCreds, now, concVars>>

\* createAuthRequest with Header.Add in place of Header.Set: a request that
\* already carries the header gets a second value
createAuthRequestAdds ==
    /\ ~crashed
    /\ \E run \in RefreshTokenRuns :
          /\ authToken' = run.tok
          /\ crashed' = run.panic
          /\ last' = [OfRun("createAuthRequest", run) EXCEPT
                         !.again = (reqHeader # NoHeader)]
          /\ reqHeader' =
                IF run.err # NoErr THEN reqHeader
                ELSE IF reqHeader = NoHeader THEN AuthHeader(run.tok)
                ELSE [scheme |-> "Token token=, Token token=",
                      b64 |-> Base64(Raw(run.tok))]
    /\ \E req \in IF reqRest = NoRequest THEN Requests ELSE {reqRest} :
          reqRest' = req
    /\ UNCHANGED <<validation, config, storeToken, storeCreds, now, concVars>>

\* the request passed in is the one being built, or a new one; again: it
\* had been stamped before
createAuthRequest ==
    /\ ~crashed
    /\ \E run \in RefreshTokenRuns :
          /\ authToken' = run.tok
          /\ crashed' = run.panic
          /\ last' = [OfRun("createAuthRequest", run) EXCEPT
                         !.again = (reqHeader # NoHeader)]
          /\ reqHeader' = IF run.err # NoErr THEN reqHeader ELSE AuthHeader(run.tok)
    /\ \E req \in IF reqRest = NoRequest THEN Requests ELSE {reqRest} :
          reqRest' = req
    /\ UNCHANGED <<validation, config, storeToken, storeCreds, now, concVars>>

\* Client.NeedsTokenRefresh called by itself: ans is what it returned.  With
\* a token that need not be refreshed the nil authenticator is asked: a panic.
ClientNeedsTokenRefresh ==
    /\ ~crashed
    /\ IF AsksAuthenticator(authToken, now) /\ authKind = "none"
       THEN /\ crashed' = TRUE
            /\ last' = [Blank("NeedsTokenRefresh") EXCEPT !.err = "panic"]
       ELSE /\ crashed' = FALSE
            /\ last' = [Blank("NeedsTokenRefresh") EXCEPT
                           !.ans = NeedsTokenRefresh(authToken, authKind, now)]
    /\ reqHeader' = NoHeader
    /\ reqRest' = NoRequest
    /\ UNCHANGED <<validation, config, authToken, storeToken, storeCreds, now, concVars>>

\* Client.InternalAuthenticate: the bytes and error returned
NoAuthenticatorErr == "unable to authenticate using client without authenticator"

\* InternalAuthenticate that returns the cached token without asking
\* whether it should be refreshed
InternalAuthenticateAnyCached ==
    IF authKind = "none"
    THEN {Run(authToken, NoAuthenticatorErr, FALSE, 0, NoAuthRun, 0, Unread)}
    ELSE IF authnType = "oidc"
         THEN IF ~hasStorage
              THEN {Run(authToken, "panic", TRUE, 0, NoAuthRun, 0, Unread)}
              ELSE {LET token == readCachedAccessToken(rd)
                    IN  IF token # NoToken
                        THEN Run(authToken, NoErr, FALSE, 0,
                                 [NoAuthRun EXCEPT !.bytes = Raw(token)], 1, rd)
                        ELSE Run(authToken, ReloginErr, FALSE, 0, NoAuthRun, 1, rd) :
                       rd \in ReadAuthnToken(storeToken)}
         ELSE {Run(authToken, r.err, FALSE, 1, r, 0, Unread) :
                  r \in AuthenticatorRefreshToken(authKind, loginPair, fixedToken,
                                                  storeToken, now)}

InternalAuthenticateRuns ==
    IF authKind = "none"
    THEN {Run(authToken, NoAuthenticatorErr, FALSE, 0, NoAuthRun, 0, Unread)}
    ELSE IF authnType = "oidc"
         THEN IF ~hasStorage
              THEN {Run(authToken, "panic", TRUE, 0, NoAuthRun, 0, Unread)}
              ELSE {LET token == readCachedAccessToken(rd)
                    IN  IF token # NoToken /\ ~ShouldRefresh(token, now)
                        THEN Run(authToken, NoErr, FALSE, 0,
                                 [NoAuthRun EXCEPT !.bytes = Raw(token)], 1, rd)
                        ELSE Run(authToken, ReloginErr, FALSE, 0, NoAuthRun, 1, rd) :
                       rd \in ReadAuthnToken(storeToken)}
         ELSE {Run(authToken, r.err, FALSE, 1, r, 0, Unread) :
                  r \in AuthenticatorRefreshToken(authKind, loginPair, fixedToken,
                                                  storeToken, now)}

\* InternalAuthenticate that keeps the bytes it obtained as the Session token
InternalAuthenticateCaches ==
    /\ ~crashed
    /\ \E run \in InternalAuthenticateRuns :
          /\ crashed' = run.panic
          /\ last' = [OfRun("InternalAuthenticate", run) EXCEPT !.out = run.got]
          /\ authToken' = IF run.err = NoErr /\ Parseable(run.got)
                          THEN NewToken(run.got).tok ELSE authToken
    /\ reqHeader' = NoHeader
    /\ reqRest' = NoRequest
    /\ UNCHANGED <<validation, config, storeToken, storeCreds, now, concVars>>

InternalAuthenticate ==
    /\ ~crashed
    /\ \E run \in InternalAuthenticateRuns :
          /\ crashed' = run.panic
          /\ last' = [OfRun("InternalAuthenticate", run) EXCEPT !.out = run.got]
    /\ reqHeader' = NoHeader
    /\ reqRest' = NoRequest
    /\ UNCHANGED <<validation, config, authToken, storeToken, storeCreds, now, concVars>>

\* What the remote side answers to Login and to the OIDC code exchange: the
\* request cannot be built, the transport fails, the response is an error
\* response, or the response carries the data.
Exchanges == {"request", "transport", "response", "ok"}

\* Client.Login
Login ==
    /\ ~crashed
    /\ \E exch \in Exchanges :
          LET login == "valid-login"
              apiKey == "valid-api-key"
          IN  IF exch # "ok"
              THEN /\ last' = [Blank("Login") EXCEPT !.err = exch, !.exch = exch]
                   /\ UNCHANGED storeCreds
              ELSE IF hasStorage
                   THEN \E w \in StoreCredentials(storeCreds, login, apiKey) :
                           /\ storeCreds' = w.creds
                           /\ last' = [Blank("Login") EXCEPT
                                          !.err = w.err, !.out = Issued(0, 0),
                                          !.writes = <<"StoreCredentials">>,
                                          !.werr = w.err, !.exch = exch]
                   ELSE /\ last' = [Blank("Login") EXCEPT !.out = Issued(0, 0),
                                                          !.exch = exch]
                        /\ UNCHANGED storeCreds
    /\ reqHeader' = NoHeader
    /\ reqRest' = NoRequest
    /\ UNCHANGED <<validation, config, authToken, storeToken, now, crashed, concVars>>

\* OidcAuthenticate that stores what it has whether or not the exchange
\* succeeded
OidcAuthenticateStoresAlways ==
    /\ ~crashed
    /\ \E exch \in Exchanges :
          \E resp \in IF exch = "ok" THEN ServerTokens(now) \cup {Junk}
                                     ELSE {NoBytes} :
             IF hasStorage
             THEN \E w \in StoreAuthnToken(storeToken, resp) :
                     /\ storeToken' = w.stored
                     /\ last' = [Blank("OidcAuthenticate") EXCEPT
                                    !.err = IF exch = "ok" THEN NoErr ELSE exch,
                                    !.out = resp, !.exch = exch,
                                    !.writes = <<"StoreAuthnToken">>,
                                    !.werr = w.err]
             ELSE /\ last' = [Blank("OidcAuthenticate") EXCEPT
                                 !.err = IF exch = "ok" THEN NoErr ELSE exch,
                                 !.out = resp, !.exch = exch]
                  /\ UNCHANGED storeToken
    /\ reqHeader' = NoHeader
    /\ reqRest' = NoRequest
    /\ UNCHANGED <<validation, config, authToken, storeCreds, now, crashed, concVars>>

\* Client.OidcAuthenticate
OidcAuthenticate ==
    /\ ~crashed
    /\ \E exch \in Exchanges :
          IF exch # "ok"
          THEN /\ last' = [Blank("OidcAuthenticate") EXCEPT !.err = exch, !.exch = exch]
               /\ UNCHANGED storeToken
          ELSE \E resp \in ServerTokens(now) \cup {Junk} :
                  IF hasStorage
                  THEN \E w \in StoreAuthnToken(storeToken, resp) :
                          /\ storeToken' = w.stored
                          /\ last' = [Blank("OidcAuthenticate") EXCEPT
                                         !.out = resp, !.exch = exch,
                                         !.writes = <<"StoreAuthnToken">>,
                                         !.werr = w.err]
                  ELSE /\ last' = [Blank("OidcAuthenticate") EXCEPT
                                      !.out = resp, !.exch = exch]
                       /\ UNCHANGED storeToken
    /\ reqHeader' = NoHeader
    /\ reqRest' = NoRequest
    /\ UNCHANGED <<validation, config, authToken, storeCreds, now, crashed, concVars>>

\* Client.PurgeCredentials
PurgeCredentials ==
    /\ ~crashed
    /\ IF ~hasStorage
       THEN /\ last' = Blank("PurgeCredentials")
            /\ UNCHANGED <<storeCreds, storeToken>>
       ELSE \E w \in StorePurgeCredentials(storeCreds, storeToken) :
               /\ storeCreds' = w.creds
               /\ storeToken' = w.stored
               /\ last' = [Blank("PurgeCredentials") EXCEPT
                              !.err = w.err, !.werr = w.err,
                              !.writes = <<"PurgeCredentials">>]
    /\ reqHeader' = NoHeader
    /\ reqRest' = NoRequest
    /\ UNCHANGED <<validation, config, authToken, now, crashed, concVars>>

\* Another process sharing the store logs in and caches its token.
OtherProcessStores ==
    /\ ~crashed
    /\ hasStorage
    /\ \E b \in ServerTokens(now) \cup {Junk} :
          \E w \in StoreAuthnToken(storeToken, b) :
             /\ w.err = NoErr
             /\ storeToken' = w.stored
    /\ last' = Blank("OtherProcessStores")
    /\ reqHeader' = NoHeader
    /\ reqRest' = NoRequest
    /\ UNCHANGED <<validation, config, authToken, storeCreds, now, crashed, concVars>>

\* a caller starts building another request
NewRequest ==
    /\ ~crashed
    /\ reqRest # NoRequest
    /\ reqHeader' = NoHeader
    /\ reqRest' = NoRequest
    /\ last' = Blank("NewRequest")
    /\ UNCHANGED <<validation, config, authToken, storeToken, storeCreds, now, crashed, concVars>>

Tick ==
    /\ ~crashed
    /\ now < MaxTime
    /\ now' = now + 1
    /\ last' = Blank("Tick")
    /\ UNCHANGED <<validation, config, authToken, storeToken, storeCreds, reqHeader, reqRest, crashed, concVars>>

(* Config and Config.validate *)

\* the characters of field values, and the strings of up to n of them
Alphabet == {"a", " "}

RECURSIVE StringsUpTo(_)
StringsUpTo(n) ==
    IF n = 0 THEN {""}
    ELSE StringsUpTo(n - 1) \cup
         {str \o ch : str \in StringsUpTo(n - 1), ch \in Alphabet}

\* struct tags: the key and value of a field's tag, NoTag for an untagged field
tagName == "validate"
NoTag == [key |-> "", val |-> ""]
TagGet(tag, key) == IF tag.key = key THEN tag.val ELSE ""

\* the fields of Config in declaration order
Fields ==
    << [name |-> "Account", tag |-> [key |-> "validate", val |-> "required"]],
       [name |-> "APIKey", tag |-> NoTag],
       [name |-> "ApplianceURL", tag |-> [key |-> "validate", val |-> "required"]],
       [name |-> "Login", tag |-> NoTag],
       [name |-> "AuthnTokenFile", tag |-> NoTag] >>

Config ==
    [Account : StringsUpTo(MaxLen), APIKey : StringsUpTo(MaxLen),
     ApplianceURL : StringsUpTo(MaxLen), Login : StringsUpTo(MaxLen),
     AuthnTokenFile : StringsUpTo(MaxLen)]

\* strings.Join
RECURSIVE Join(_, _)
Join(strs, sep) ==
    IF Len(strs) = 0 THEN ""
    ELSE IF Len(strs) = 1 THEN strs[1]
    ELSE strs[1] \o sep \o Join(Tail(strs), sep)

\* the loop of validate from field i on, with the messages collected so far
RECURSIVE validateFrom(_, _, _)
validateFrom(c, i, errors) ==
    IF i > Len(Fields) THEN errors
    ELSE LET f == Fields[i]
             tag == TagGet(f.tag, tagName)
         IN  IF tag = "required" /\ c[f.name] = ""
             THEN validateFrom(c, i + 1, Append(errors, f.name \o " is required."))
             ELSE validateFrom(c, i + 1, errors)

\* validate that reports only the first empty required field
validateStopsAtFirst(c) ==
    LET errors == validateFrom(c, 1, <<>>)
    IN  IF Len(errors) = 0 THEN NoErr ELSE errors[1]

\* Config.validate: nil, or the error's message
validate(c) ==
    LET errors == validateFrom(c, 1, <<>>)
    IN  IF Len(errors) = 0 THEN NoErr ELSE Join(errors, "\n")

\* validate has not been called; the Config of a client that was built
NotValidated == "validate not called"
BuiltConfig ==
    [Account |-> "a", APIKey |-> "", ApplianceURL |-> "a", Login |-> "",
     AuthnTokenFile |-> ""]

-----------------------------------------------------------------------------
(* Clients *)

NoPair == [login |-> "", apiKey |-> ""]

Configs ==
    {c \in [authKind : {"apikey", "token", "oidc", "none"},
            authnType : {"authn", "oidc"},
            hasStorage : BOOLEAN,
            loginPair : {ValidPair, InvalidPair, NoPair},
            fixedToken : {NoBytes, Issued(0, 1)} \cup Malformed] :
        /\ (c.authKind = "oidc") => (c.authnType = "oidc")
        /\ (c.authKind \in {"apikey", "token"}) => (c.authnType = "authn")
        /\ (c.loginPair # NoPair) <=> (c.authKind = "apikey")
        /\ (c.fixedToken # NoBytes) => (c.authKind = "token")}

InitClient ==
    /\ \E c \in Configs :
          /\ authKind = c.authKind
          /\ authnType = c.authnType
          /\ hasStorage = c.hasStorage
          /\ loginPair = c.loginPair
          /\ fixedToken = c.fixedToken
    /\ authToken = NoToken
    /\ storeToken = NoBytes
    /\ storeCreds = NoCreds
    /\ now = 0
    /\ reqHeader = NoHeader
    /\ reqRest = NoRequest
    /\ crashed = FALSE
    /\ last = Blank("new")
    /\ conf = BuiltConfig
    /\ validateErr = NotValidated

\* locals of a caller that is not in a call
\* op: the handler; rd, r: what the store read and the authenticator call
\* returned, while the handler holds them; err: the error returned;
\* stale: what NeedsTokenRefresh answered, seen: the assignments refreshToken
\* had made in this burst by then; inst: how the token this caller assigned
\* was at that moment; used: how the token the handler left the caller with
\* (the one createAuthRequest encodes) was at that moment.
Idle ==
    [op |-> "", rd |-> Unread, r |-> Ok(NoBytes), err |-> NoErr,
     stale |-> FALSE, seen |-> 0, inst |-> "", used |-> ""]

Freshness(tok, t) ==
    IF tok = NoToken THEN "nil"
    ELSE IF ShouldRefresh(tok, t) THEN "stale" ELSE "fresh"

InitCallers ==
    /\ pc = [p \in 1..Callers |-> "idle"]
    /\ loc = [p \in 1..Callers |-> Idle]
    /\ netCalls = 0
    /\ installs = [n |-> 0, tok |-> NoToken]

Init == InitClient /\ InitCallers

Next ==
    \/ RefreshToken
    \/ ForceRefreshToken
    \/ createAuthRequest
    \/ ClientNeedsTokenRefresh
    \/ InternalAuthenticate
    \/ Login
    \/ OidcAuthenticate
    \/ PurgeCredentials
    \/ OtherProcessStores
    \/ NewRequest
    \/ Tick

Spec == Init /\ [][Next]_vars

-----------------------------------------------------------------------------
(* SpecConc: the token-demanding handlers run by concurrent callers on one  *)
(* Client. c.authToken is read and written without a lock, so callers       *)
(* interleave at every access to it and at every blocking call. The field   *)
(* is one pointer word: an unsynchronised read yields nil or a token some   *)
(* caller assigned, and the last assignment stays. A burst is a set of      *)
(* overlapping calls, at most one per caller.                               *)

Handlers == {"RefreshToken", "ForceRefreshToken", "createAuthRequest"}

Goto(p, where, locals) ==
    /\ pc' = [pc EXCEPT ![p] = where]
    /\ loc' = [loc EXCEPT ![p] = locals]

\* a caller enters a handler
Enter(p) ==
    /\ pc[p] = "idle"
    /\ \E op \in Handlers :
          Goto(p, IF op = "ForceRefreshToken" THEN "call"
                  ELSE IF authnType = "oidc" THEN "read" ELSE "check",
               [Idle EXCEPT !.op = op])
    /\ UNCHANGED <<validation, config, authToken, storeToken, storeCreds, now, reqHeader, reqRest,
                   last, crashed, netCalls, installs>>

\* RefreshToken line 29: c.readCachedAccessToken()
ReadCache(p) ==
    /\ pc[p] = "read"
    /\ \E rd \in ReadAuthnToken(storeToken) :
          Goto(p, "hydrate", [loc[p] EXCEPT !.rd = rd])
    /\ UNCHANGED <<validation, config, authToken, storeToken, storeCreds, now, reqHeader, reqRest,
                   last, crashed, netCalls, installs>>

\* RefreshToken lines 30-32
AssignCached(p) ==
    /\ pc[p] = "hydrate"
    /\ authToken' = Hydrate(authToken, loc[p].rd)
    /\ Goto(p, "check", [loc[p] EXCEPT !.rd = Unread])
    /\ UNCHANGED <<validation, config, storeToken, storeCreds, now, reqHeader, reqRest,
                   last, crashed, netCalls, installs>>

\* RefreshToken line 35: c.NeedsTokenRefresh()
Check(p) ==
    /\ pc[p] = "check"
    /\ LET stale == NeedsTokenRefresh(authToken, authKind, now)
       IN  Goto(p, IF stale THEN "call" ELSE "return",
                [loc[p] EXCEPT !.stale = stale, !.seen = installs.n])
    /\ UNCHANGED <<validation, config, authToken, storeToken, storeCreds, now, reqHeader, reqRest,
                   last, crashed, netCalls, installs>>

\* refreshToken line 48: c.authenticator.RefreshToken()
CallAuthenticator(p) ==
    /\ pc[p] = "call"
    /\ \E r \in AuthenticatorRefreshToken(authKind, loginPair, fixedToken,
                                          storeToken, now) :
          Goto(p, "install", [loc[p] EXCEPT !.r = [bytes |-> r.bytes, err |-> r.err]])
    /\ netCalls' = netCalls + 1
    /\ UNCHANGED <<validation, config, authToken, storeToken, storeCreds, now, reqHeader, reqRest,
                   last, crashed, installs>>

\* refreshToken lines 49-60
Install(p) ==
    /\ pc[p] = "install"
    /\ LET res == refreshToken(authToken, loc[p].r)
       IN  /\ authToken' = res.tok
           /\ installs' = IF res.err = NoErr
                          THEN [n |-> installs.n + 1,
                                tok |-> NewToken(loc[p].r.bytes).tok]
                          ELSE installs
           /\ Goto(p, "return",
                   [loc[p] EXCEPT !.err = res.err,
                                  !.r = Ok(NoBytes),
                                  !.inst = IF res.err = NoErr
                                           THEN Freshness(res.tok, now) ELSE ""])
    /\ UNCHANGED <<validation, config, storeToken, storeCreds, now, reqHeader, reqRest,
                   last, crashed, netCalls>>

\* the handler returns; createAuthRequest lines 85-94 read c.authToken again
Return(p) ==
    /\ pc[p] = "return"
    /\ Goto(p, "done",
            [loc[p] EXCEPT !.used = IF loc[p].err = NoErr
                                    THEN Freshness(authToken, now) ELSE ""])
    /\ UNCHANGED <<validation, config, authToken, storeToken, storeCreds, now, reqHeader, reqRest,
                   last, crashed, netCalls, installs>>

AllDone ==
    /\ \A p \in 1..Callers : pc[p] \in {"idle", "done"}
    /\ \E p \in 1..Callers : pc[p] = "done"

\* every call of the burst has returned
EndBurst ==
    /\ AllDone
    /\ pc' = [p \in 1..Callers |-> "idle"]
    /\ loc' = [p \in 1..Callers |-> Idle]
    /\ netCalls' = 0
    /\ installs' = [n |-> 0, tok |-> NoToken]
    /\ UNCHANGED <<validation, config, authToken, storeToken, storeCreds, now, reqHeader, reqRest,
                   last, crashed>>

TickConc ==
    /\ now < MaxTime
    /\ now' = now + 1
    /\ UNCHANGED <<validation, config, authToken, storeToken, storeCreds, reqHeader, reqRest, last,
                   crashed, concVars>>

OtherProcessStoresConc ==
    /\ hasStorage
    /\ \E w \in StoreAuthnToken(storeToken, Issued(now, 1)) :
          /\ w.err = NoErr
          /\ storeToken' = w.stored
    /\ UNCHANGED <<validation, config, authToken, storeCreds, now, reqHeader, reqRest, last,
                   crashed, concVars>>

\* clients whose handlers do not call a nil interface
InitConc ==
    /\ Init
    /\ authKind # "none"
    /\ hasStorage <=> (authnType = "oidc")

NextConc ==
    \/ \E p \in 1..Callers :
          \/ Enter(p)
          \/ ReadCache(p)
          \/ AssignCached(p)
          \/ Check(p)
          \/ CallAuthenticator(p)
          \/ Install(p)
          \/ Return(p)
    \/ EndBurst
    \/ TickConc
    \/ OtherProcessStoresConc

SpecConc == InitConc /\ [][NextConc]_vars

-----------------------------------------------------------------------------
(* SpecValidate: Config.validate called on a Config value, before any       *)
(* client is built from it                                                  *)

CallValidate ==
    /\ validateErr = NotValidated
    /\ validateErr' = validate(conf)
    /\ UNCHANGED <<conf, config, authToken, storeToken, storeCreds, now,
                   reqHeader, reqRest, last, crashed, concVars>>

InitValidate ==
    /\ conf \in Config
    /\ validateErr = NotValidated
    /\ authKind = "none"
    /\ authnType = "authn"
    /\ hasStorage = FALSE
    /\ loginPair = NoPair
    /\ fixedToken = NoBytes
    /\ authToken = NoToken
    /\ storeToken = NoBytes
    /\ storeCreds = NoCreds
    /\ now = 0
    /\ reqHeader = NoHeader
    /\ reqRest = NoRequest
    /\ crashed = FALSE
    /\ last = Blank("new")
    /\ InitCallers

NextValidate == CallValidate

SpecValidate == InitValidate /\ [][NextValidate]_vars

-----------------------------------------------------------------------------
(* Properties *)

Demanding == {"RefreshToken", "ForceRefreshToken", "createAuthRequest"}

\* C1: when a handler that demands a valid token (RefreshToken,
\* ForceRefreshToken, createAuthRequest) has called the authenticator and the
\* attempt failed - the authenticator returned an error, or its bytes do not
\* parse - the handler returns that error, the Session token is the one held
\* when the attempt began (the token before the call, or in OIDC mode the
\* parseable token RefreshToken had just hydrated from the store), a Stale
\* Session is still Stale, and createAuthRequest leaves the request's
\* Authorization header as it was.
C1_FailedRefreshKeepsToken ==
    [][(last'.op \in Demanding /\ last'.calls = 1 /\ last'.err # NoErr) =>
         /\ last'.err = IF last'.gotErr # NoErr THEN last'.gotErr
                        ELSE "malformed token"
         /\ \/ authToken' = authToken
            \/ /\ last'.op # "ForceRefreshToken"
               /\ authnType = "oidc"
               /\ last'.rdErr = NoErr
               /\ Parseable(storeToken)
               /\ Raw(authToken') = storeToken
         /\ (last'.op # "ForceRefreshToken") =>
               NeedsTokenRefresh(authToken', authKind, now')
         /\ (last'.op = "createAuthRequest") => (reqHeader' = reqHeader)
      ]_vars

\* a Stale Session holding a token, whose refresh attempt failed
C1_Witness ==
    /\ last.op = "createAuthRequest"
    /\ last.calls = 1
    /\ last.err = "malformed token"
    /\ last.pre # NoToken
    /\ authToken = last.pre

\* C2: when every one of the Callers >= 2 concurrent callers of RefreshToken
\* or createAuthRequest found the shared Session Stale before any of them had
\* assigned a token, and all of them returned without error, exactly one call
\* to the authenticator's RefreshToken was made in the burst and every caller
\* is left with a token whose ShouldRefresh() is false.
C2_AtMostOneNetworkCall ==
    (\A p \in 1..Callers :
        /\ pc[p] = "done"
        /\ loc[p].op \in {"RefreshToken", "createAuthRequest"}
        /\ loc[p].stale
        /\ loc[p].seen = 0
        /\ loc[p].err = NoErr)
    => /\ netCalls = 1
       /\ \A p \in 1..Callers : loc[p].used = "fresh"

\* C3: under every interleaving of concurrent refreshes, once all calls of
\* the burst have returned the Session token is the one the last successful
\* refreshToken assigned (outside OIDC mode, where hydration also assigns),
\* never nil, and every token refreshToken assigned was not ShouldRefresh()
\* at the moment it was assigned.
C3_DuplicateRefreshesKeepState ==
    /\ (AllDone /\ installs.n > 0 /\ authnType # "oidc") =>
          (authToken = installs.tok /\ authToken # NoToken)
    /\ \A p \in 1..Callers : loc[p].inst # "stale"

\* C4: whenever createAuthRequest sets the Authorization header, the token it
\* encodes is not ShouldRefresh() at that moment, for every authenticator;
\* and a demand for a valid token on a client whose pre-issued token has
\* expired ends in an error.
C4_NeverHandsOutExpired ==
    /\ (last.op = "createAuthRequest" /\ last.err = NoErr) =>
          (reqHeader = AuthHeader(authToken) /\ ~ShouldRefresh(authToken, now))
    /\ (/\ last.op \in Demanding
        /\ authKind = "token"
        /\ Parseable(fixedToken)
        /\ ShouldRefresh(NewToken(fixedToken).tok, now)) =>
          last.err # NoErr

\* C5: every successful refresh (a refreshToken run, through RefreshToken or
\* ForceRefreshToken, that assigned a new token) on a client with a store
\* wrote the new token's bytes through StoreAuthnToken, and whatever the
\* write returned the refresh reports success with the new token in memory.
C5_RefreshWritesThrough ==
    (/\ last.op \in {"RefreshToken", "ForceRefreshToken"}
     /\ last.calls = 1
     /\ last.err = NoErr
     /\ hasStorage) =>
       /\ last.writes = <<"StoreAuthnToken">>
       /\ (last.werr = NoErr) => (storeToken = Raw(authToken))
       /\ Raw(authToken) = last.got

\* C6: ForceRefreshToken, whatever the state of the Session, calls the
\* authenticator's RefreshToken exactly once, and when that call succeeds with
\* bytes that parse, it returns nil and the Session token is the token of
\* those bytes.
C6_ForceRefreshBypassesCheck ==
    (last.op = "ForceRefreshToken" /\ authKind # "none") =>
       /\ last.calls = 1
       /\ (last.gotErr = NoErr /\ Parseable(last.got)) =>
             /\ last.err = NoErr
             /\ authToken = NewToken(last.got).tok
             /\ Raw(authToken) = last.got

\* a Fresh Session whose token ForceRefreshToken replaced by another one
C6_Witness ==
    /\ last.op = "ForceRefreshToken"
    /\ last.err = NoErr
    /\ last.pre # NoToken
    /\ ~ShouldRefresh(last.pre, now)
    /\ authToken # last.pre
    /\ Raw(authToken) = last.got

\* C7: store failures are absorbed everywhere but in an explicit purge: a
\* failing ReadAuthnToken during hydration is a cache miss, a failing
\* StoreAuthnToken in OidcAuthenticate and a failing StoreCredentials in Login
\* leave a successful exchange successful, and a failing PurgeCredentials is
\* returned to the caller.
C7_StoreFailuresAbsorbed ==
    /\ (last.op \in {"RefreshToken", "createAuthRequest"} /\ last.reads = 1
        /\ last.rdErr # NoErr /\ last.calls = 0 /\ ~crashed) =>
          (last.err = NoErr /\ authToken = last.pre)
    /\ (last.op = "OidcAuthenticate" /\ last.exch = "ok") => last.err = NoErr
    /\ (last.op = "Login" /\ last.exch = "ok") => last.err = NoErr
    /\ (last.op = "PurgeCredentials") => last.err = last.werr

\* C8: RefreshToken of an OIDC-configured client reads the store's cached
\* token before it evaluates staleness: when the read succeeds with a token
\* that parses and is fresh, the Session holds that token afterwards and
\* RefreshToken returns nil without a call to the authenticator. RefreshToken
\* of any other client never reads the store.
C8_OidcHydratesFirst ==
    /\ (/\ last.op = "RefreshToken"
        /\ authnType = "oidc" /\ authKind # "none" /\ hasStorage
        /\ last.rdErr = NoErr
        /\ Parseable(storeToken)
        /\ ~ShouldRefresh(NewToken(storeToken).tok, now)) =>
          /\ last.reads = 1
          /\ last.err = NoErr
          /\ last.calls = 0
          /\ Raw(authToken) = storeToken
    /\ (last.op = "RefreshToken" /\ authnType # "oidc") =>
          (last.reads = 0 /\ last.areads = 0)

\* a Session that adopted a token another process had stored
C8_Witness ==
    /\ last.op = "RefreshToken"
    /\ authnType = "oidc"
    /\ last.err = NoErr
    /\ last.calls = 0
    /\ last.pre # NoToken
    /\ authToken # last.pre
    /\ Raw(authToken) = storeToken

\* C9: InternalAuthenticate of an OIDC client with an authenticator never
\* calls the authenticator's RefreshToken; it fails with the login-again error
\* when the store has no cached token, cannot be read, holds bytes that do not
\* parse or holds a token that should be refreshed, and otherwise returns the
\* stored bytes unchanged with a nil error.
C9_OidcInternalAuthenticate ==
    (/\ last.op = "InternalAuthenticate"
     /\ authnType = "oidc" /\ authKind # "none" /\ hasStorage) =>
       /\ last.calls = 0
       /\ IF /\ last.rdErr = NoErr
             /\ Parseable(storeToken)
             /\ ~ShouldRefresh(NewToken(storeToken).tok, now)
          THEN last.err = NoErr /\ last.out = storeToken
          ELSE last.err = ReloginErr /\ last.out = NoBytes

\* the store was seeded with a fresh token and InternalAuthenticate returned it
C9_Witness ==
    /\ last.op = "InternalAuthenticate"
    /\ authnType = "oidc"
    /\ last.err = NoErr
    /\ Parseable(last.out)
    /\ last.out = storeToken

\* C10: a call of APIKeyAuthenticator.RefreshToken calls the Authenticate
\* delegate exactly once, with the authenticator's own LoginPair, and returns
\* what the delegate returned: its bytes with a nil error, or nil bytes with
\* its error.
C10_APIKeyRefreshToken ==
    (authKind = "apikey" /\ last.calls = 1) =>
       /\ Len(last.deleg) = 1
       /\ last.deleg[1].arg = loginPair
       /\ last.got = last.deleg[1].bytes
       /\ last.gotErr = last.deleg[1].err
       /\ (last.gotErr # NoErr) => (last.got = NoBytes)
       /\ (loginPair = InvalidPair) => (last.gotErr # NoErr)

\* the delegate rejected the LoginPair and RefreshToken passed the error on
C10_Witness ==
    /\ authKind = "apikey"
    /\ last.calls = 1
    /\ last.gotErr = "401 Invalid"
    /\ last.got = NoBytes

\* C11: the API-key authenticator never asks for a refresh by itself, so
\* what Client.NeedsTokenRefresh answers for a client using it is true exactly
\* when the Session has no token or the token's ShouldRefresh() is true.
C11_APIKeyStaleIffTokenStale ==
    /\ ~APIKeyNeedsTokenRefresh
    /\ (last.op = "NeedsTokenRefresh" /\ authKind = "apikey") =>
          (last.ans <=> (authToken = NoToken \/ ShouldRefresh(authToken, now)))

\* an API-key client was asked while holding a token that is due for refresh
C11_Witness ==
    /\ last.op = "NeedsTokenRefresh"
    /\ authKind = "apikey"
    /\ authToken # NoToken
    /\ ShouldRefresh(authToken, now)
    /\ last.ans

\* C12: a successful createAuthRequest sets the Authorization header to the
\* fixed wrapping of the base64 encoding of the Session token's Raw() and
\* leaves the rest of the request as it was; on a request that was stamped
\* before, with the Session token unchanged by the call, the header value is
\* the same as the one the request carried.
C12_StampingIdempotent ==
    [][(last'.op = "createAuthRequest" /\ last'.err = NoErr) =>
          /\ reqHeader' = [scheme |-> "Token token=",
                           b64 |-> Base64(Raw(authToken'))]
          /\ (reqRest # NoRequest) => (reqRest' = reqRest)
          /\ (reqHeader # NoHeader /\ authToken' = authToken) =>
                (reqHeader' = reqHeader)]_vars

\* a request stamped before was stamped again while the token was fresh
C12_Witness ==
    /\ last.op = "createAuthRequest"
    /\ last.err = NoErr
    /\ last.again
    /\ last.calls = 0
    /\ last.pre = authToken
    /\ ~ShouldRefresh(authToken, now)
    /\ reqHeader = AuthHeader(authToken)

C14_StaleToFreshOnSuccess ==
    (last.op = "RefreshToken" /\ last.calls = 1 /\ last.err = NoErr) =>
        /\ Raw(authToken) = last.got
        /\ ~NeedsTokenRefresh(authToken, authKind, now)

\* C15: one call of RefreshToken, ForceRefreshToken or createAuthRequest
\* calls the authenticator's RefreshToken at most once, whether that call
\* succeeds or fails; RefreshToken and createAuthRequest on a non-OIDC client
\* whose token is present and not due for refresh call it zero times, leave
\* the token as it was and return nil.
C15_NoAutomaticRetry ==
    (last.op \in Demanding) =>
        /\ last.calls <= 1
        /\ ( /\ last.op \in {"RefreshToken", "createAuthRequest"}
             /\ authnType # "oidc"
             /\ last.pre # NoToken
             /\ ~ShouldRefresh(last.pre, now)
             /\ ~crashed ) =>
                (last.calls = 0 /\ authToken = last.pre /\ last.err = NoErr)

\* the one authenticator call of a handler failed and the handler returned
C15_Witness ==
    /\ last.op \in Demanding
    /\ last.calls = 1
    /\ last.gotErr # NoErr
    /\ last.err = last.gotErr

\* C16: Client.InternalAuthenticate, on every path (no authenticator, OIDC
\* with a usable cached token, OIDC without one, the authenticator's
\* RefreshToken succeeding or failing), leaves the Session token as it was
\* and writes nothing to the store: the cached token and the stored
\* credentials are unchanged.
C16_InternalAuthenticateCachesNothing ==
    [][(last'.op = "InternalAuthenticate") =>
          /\ authToken' = authToken
          /\ storeToken' = storeToken
          /\ storeCreds' = storeCreds
          /\ last'.writes = <<>>]_vars

\* the authenticator returned token bytes to InternalAuthenticate and the
\* Session still has no token
C16_Witness ==
    /\ last.op = "InternalAuthenticate"
    /\ last.calls = 1
    /\ last.err = NoErr
    /\ Parseable(last.out)
    /\ authToken = NoToken

\* C17: OidcAuthenticate calls StoreAuthnToken only when the exchange
\* succeeded and a store is configured, and then with the token the exchange
\* returned; Login calls StoreCredentials only when the login response was
\* read and a store is configured; a failed exchange or login leaves the
\* store's cached token and credentials unchanged, and neither handler
\* touches the other's part of the store.
C17_StoreWrittenOnlyOnSuccess ==
    [][/\ (last'.op = "OidcAuthenticate") =>
             /\ (last'.writes # <<>>) =>
                   /\ last'.exch = "ok" /\ hasStorage
                   /\ last'.writes = <<"StoreAuthnToken">>
             /\ (last'.exch # "ok") => (storeToken' = storeToken)
             /\ (storeToken' # storeToken) => (storeToken' = last'.out)
             /\ storeCreds' = storeCreds
       /\ (last'.op = "Login") =>
             /\ (last'.writes # <<>>) =>
                   /\ last'.exch = "ok" /\ hasStorage
                   /\ last'.writes = <<"StoreCredentials">>
             /\ (last'.exch # "ok") => (storeCreds' = storeCreds)
             /\ storeToken' = storeToken]_vars

\* an exchange failed while the store held a cached token, and nothing was
\* written
C17_Witness ==
    /\ last.op = "OidcAuthenticate"
    /\ last.exch # "ok"
    /\ last.err # NoErr
    /\ hasStorage
    /\ Parseable(storeToken)
    /\ last.writes = <<>>

\* C18: in OIDC mode, when the store's ReadAuthnToken fails or the stored
\* bytes do not parse, Client.RefreshToken's hydration is a cache miss: a call
\* that makes no authenticator call returns nil with the Session token as it
\* was, a Session whose token is present and not due for refresh makes no
\* authenticator call, and the error of a call that fails is the one the
\* authenticator returned, never the store's or the parser's.
C18_MissedHydrationIsSilent ==
    ( /\ last.op = "RefreshToken"
      /\ authnType = "oidc"
      /\ last.reads = 1
      /\ (last.rdErr # NoErr \/ ~Parseable(storeToken))
      /\ ~crashed ) =>
        /\ (last.calls = 0) => (last.err = NoErr /\ authToken = last.pre)
        /\ (last.pre # NoToken /\ ~ShouldRefresh(last.pre, now)) =>
              (last.calls = 0)
        /\ (last.err # NoErr) => (last.err = last.gotErr /\ authToken = last.pre)

\* the store held bytes that do not parse, the Session held a fresh token,
\* and RefreshToken returned nil without asking the authenticator
C18_Witness ==
    /\ last.op = "RefreshToken"
    /\ authnType = "oidc"
    /\ last.reads = 1
    /\ last.rdErr = NoErr
    /\ storeToken = Junk
    /\ last.pre # NoToken
    /\ ~ShouldRefresh(last.pre, now)
    /\ authToken = last.pre
    /\ last.calls = 0
    /\ last.err = NoErr

\* C19: under every interleaving of RefreshToken, ForceRefreshToken and
\* createAuthRequest calls, a Session that holds a token never goes back to
\* holding none, and a handler that returns nil leaves its caller with a
\* token that is present, so createAuthRequest never encodes a missing token.
C19_TokenNeverGoesBackToNil ==
    [][/\ (authToken # NoToken) => (authToken' # NoToken)
       /\ \A p \in 1..Callers :
             (pc'[p] = "done" /\ loc'[p].err = NoErr) =>
                (loc'[p].used \in {"stale", "fresh"})]_vars

\* two callers both replaced the token in one burst and a createAuthRequest
\* among them returned nil and encoded a token
C19_Witness ==
    /\ installs.n = 2
    /\ \E p \in 1..Callers :
          /\ pc[p] = "done"
          /\ loc[p].op = "createAuthRequest"
          /\ loc[p].err = NoErr
          /\ loc[p].used # "nil"

\* C20: every replacement of the Session token - by a refresh, by OIDC
\* hydration from the store, or by the later of two concurrent refreshes -
\* puts in a token whose issuance time is greater than or equal to that of
\* the token it replaces.
C20_ReplacementNeverMovesBack ==
    [][(authToken # NoToken /\ authToken' # authToken) =>
          (authToken'.iat >= authToken.iat)]_vars

\* C21: Config.validate returns nil if and only if Account and ApplianceURL
\* are both non-empty; otherwise the message of the error it returns lists
\* exactly the empty ones among the two, Account first, each as
\* '<FieldName> is required.', one per line; APIKey, Login and AuthnTokenFile
\* change nothing, whatever they hold.
C21_ValidateRequiresAccountAndURL ==
    (validateErr # NotValidated) =>
        /\ (validateErr = NoErr) <=> (conf.Account # "" /\ conf.ApplianceURL # "")
        /\ (conf.Account = "" /\ conf.ApplianceURL = "") =>
              (validateErr = "Account is required.\nApplianceURL is required.")
        /\ (conf.Account = "" /\ conf.ApplianceURL # "") =>
              (validateErr = "Account is required.")
        /\ (conf.Account # "" /\ conf.ApplianceURL = "") =>
              (validateErr = "ApplianceURL is required.")

\* validate was called on a Config in which every field is empty and
\* returned the two messages of the required fields
C21_Witness ==
    /\ validateErr = "Account is required.\nApplianceURL is required."
    /\ conf.Account = ""
    /\ conf.ApplianceURL = ""
    /\ conf.APIKey = ""
    /\ conf.Login = ""
    /\ conf.AuthnTokenFile = ""

====
